---- MODULE Spec2Model ----
(***************************************************************************)
(* Model of Acroform_aditus.py: the PDF image-field processor              *)
(* (PDFImageFieldProcessor) and the HTTP handlers that drive it over the   *)
(* shared temporary directory TEMP_DIR.                                    *)
(*                                                                         *)
(* Paths are pairs <<dir, name>>: dir is <<>> for TEMP_DIR itself or the   *)
(* name of a batch directory; names are sequences of tokens, so that the   *)
(* f-strings of the source (prefix + value + suffix) and the str.replace   *)
(* of the ZIP step are computed on the parts they are built of.            *)
(*                                                                         *)
(* Fault model: the failures of the spec's error taxonomy (unreadable      *)
(* source, overlay construction, merging, writing a file).  Removing a     *)
(* file the same handler has just created and closed does not fail.        *)
(***************************************************************************)
EXTENDS Integers, Sequences, FiniteSets, TLC

VARIABLES
    files,      \* TEMP_DIR: path -> content, for every PDF file that exists
    zips,       \* TEMP_DIR: path -> set of entries, for every ZIP that exists
    dirs,       \* names of the batch directories that exist under TEMP_DIR
    used_ids,   \* identifiers uuid4 has handed out
    reqs,       \* request slot -> the state of the handler running in it
    log,        \* set of <<slot, path>>: every path a processing request touched
    call,       \* the direct process_pdf call of SpecPdf
    cleanups    \* the response of the last cleanup_files call

vars == <<files, zips, dirs, used_ids, reqs, log, call, cleanups>>

----------------------------------------------------------------------------
(* Bounds *)

MaxPages == 2
MaxFiles == 2
MaxBatch == 4
MaxApiFiles == 1
MaxReq == 2

----------------------------------------------------------------------------
(* ImageFieldConfig and pages *)

DefaultConfig ==
    [field_name |-> "firma_empleado", x_pos |-> -27, y_pos |-> 16,
     width |-> 90, height |-> 23]

Positions == {-700, -27, 0, 16}
Sizes == {23, 90}

Configs ==
    [field_name : {"firma_empleado"}, x_pos : Positions, y_pos : Positions,
     width : Sizes, height : Sizes]

ExistingField ==
    [name |-> "old", x |-> 10, y |-> 10, width |-> 5, height |-> 5]

\* a page: its own content (body), its mediabox and its field annotations
Page1 == [body |-> "p1", w |-> 612, h |-> 792, annots |-> <<>>]

PageKinds ==
    { Page1,
      [body |-> "p2", w |-> 200, h |-> 100, annots |-> <<>>],
      [body |-> "p3", w |-> 612, h |-> 792, annots |-> <<ExistingField>>] }

SeqsUpTo(S, n) == UNION { [1..k -> S] : k \in 0..n }

\* the bytes of a file: a well-formed document, or bytes no reader accepts
Corrupt == [valid |-> FALSE, pages |-> <<>>]
Doc(pages) == [valid |-> TRUE, pages |-> pages]
Docs == { Doc(p) : p \in SeqsUpTo(PageKinds, MaxPages) } \cup {Corrupt}

StepNames == {"open", "read", "overlay", "merge", "create", "write"}
Faults == StepNames \cup {"none"}

----------------------------------------------------------------------------
(* PDFImageFieldProcessor *)

AdjustClamped(pos, extent) ==
    IF pos >= 0 THEN pos ELSE IF extent + pos < 0 THEN 0 ELSE extent + pos

Adjust(pos, extent) == IF pos >= 0 THEN pos ELSE extent + pos

\* the one-page overlay: a page of the given size holding one button field
create_image_field_overlay(config, page_width, page_height) ==
    [body |-> "Imagen", w |-> page_width, h |-> page_height,
     annots |-> << [name   |-> config.field_name,
                    x      |-> Adjust(config.x_pos, page_width),
                    y      |-> Adjust(config.y_pos, page_height),
                    width  |-> config.width,
                    height |-> config.height] >>]

\* PyPDF2 merge_page as the source uses it: the overlay's annotations are
\* added after the page's own; the page keeps its body and mediabox
merge_page(page, overlay_page) ==
    [page EXCEPT !.annots = page.annots \o overlay_page.annots]

add_pageFront(writer, page) == <<page>> \o writer

\* PdfWriter.add_page: the page goes after the pages already added
add_page(writer, page) == Append(writer, page)

FirstOnlyAll(page_num) == TRUE

FirstOnly(page_num) == page_num = 0

RECURSIVE PageLoop(_, _, _, _)
PageLoop(pages, page_num, writer, config) ==
    IF page_num >= Len(pages) THEN writer
    ELSE LET page == pages[page_num + 1]
             out  == IF FirstOnly(page_num)
                     THEN merge_page(page,
                              create_image_field_overlay(config, page.w, page.h))
                     ELSE page
         IN PageLoop(pages, page_num + 1, add_page(writer, out), config)

ExceptReraise(steps) == [outcome |-> "raised", steps |-> steps]

\* except Exception: print, return False
Except(steps) == [outcome |-> "False", steps |-> steps]

\* process_pdf on the file system fl; fault names the step the environment
\* makes fail if the call reaches it.  The result: outcome, the steps run
\* (each with how it ended) and the files afterwards.
process_pdf(fl, input_path, output_path, config, fault) ==
    LET S(seq, step, how) == Append(seq, <<step, how>>)
        s0 == <<>>
    IN
    IF input_path \notin DOMAIN fl \/ fault = "open"
    THEN Except(S(s0, "open", "fail")) @@ [files |-> fl]
    ELSE LET s1 == S(s0, "open", "ok") IN
    IF ~fl[input_path].valid \/ fault = "read"
    THEN Except(S(s1, "read", "fail")) @@ [files |-> fl]
    ELSE LET s2    == S(s1, "read", "ok")
             pages == fl[input_path].pages
             n     == Len(pages)
         IN
    IF n >= 1 /\ fault = "overlay"
    THEN Except(S(s2, "overlay", "fail")) @@ [files |-> fl]
    ELSE LET s3 == IF n >= 1 THEN S(s2, "overlay", "ok") ELSE s2 IN
    IF n >= 1 /\ fault = "merge"
    THEN Except(S(s3, "merge", "fail")) @@ [files |-> fl]
    ELSE LET s4     == IF n >= 1 THEN S(s3, "merge", "ok") ELSE s3
             writer == PageLoop(pages, 0, <<>>, config)
         IN
    IF fault = "create"
    THEN Except(S(s4, "create", "fail")) @@ [files |-> fl]
    ELSE LET s5 == S(s4, "create", "ok") IN
    IF fault = "write"
    THEN Except(S(s5, "write", "fail"))
         @@ [files |-> (output_path :> Corrupt) @@ fl]
    ELSE [outcome |-> "True", steps |-> S(s5, "write", "ok"),
          files |-> (output_path :> Doc(writer)) @@ fl]

----------------------------------------------------------------------------
(* process_pdf called directly: SpecPdf *)

TEMP_DIR == <<>>
PdfIn == <<TEMP_DIR, <<"in.pdf">>>>
PdfOut == <<TEMP_DIR, <<"out.pdf">>>>

NoFiles == [p \in {} |-> Corrupt]
NoZips == [p \in {} |-> {}]
NoCall == [state |-> "none", config |-> DefaultConfig, fault |-> "none",
           outcome |-> "none", steps |-> <<>>]
NoCleanup == [file_id |-> "none", cleaned |-> 0, status |-> 0]

InitPdf ==
    /\ files \in {NoFiles} \cup { (PdfIn :> d) : d \in Docs }
    /\ call \in [state : {"ready"}, config : Configs, fault : Faults,
                 outcome : {"none"}, steps : {<<>>}]
    /\ zips = NoZips /\ dirs = {} /\ used_ids = {} /\ log = {}
    /\ reqs = <<>> /\ cleanups = NoCleanup

PdfCall ==
    /\ call.state = "ready"
    /\ LET res == process_pdf(files, PdfIn, PdfOut, call.config, call.fault)
       IN /\ files' = res.files
          /\ call' = [call EXCEPT !.state = "done", !.outcome = res.outcome,
                                  !.steps = res.steps]
    /\ UNCHANGED <<zips, dirs, used_ids, reqs, log, cleanups>>

NextPdf == PdfCall

SpecPdf == InitPdf /\ [][NextPdf]_vars

----------------------------------------------------------------------------
(* Names, paths and responses of the HTTP handlers *)

Lower(tok) == IF tok = ".PDF" THEN ".pdf" ELSE tok

\* file.filename.lower().endswith('.pdf')
IsPdf(filename) == Lower(filename[Len(filename)]) = ".pdf"

NameA == <<"a", ".pdf">>
NameB == <<"b", ".pdf">>
NameP == <<"processed_", "a", ".pdf">>
NameU == <<"b", ".PDF">>
NameT == <<"a", ".txt">>

Valid1 == Doc(<<Page1>>)

Upload(n, d, f) == [filename |-> n, data |-> d, fault |-> f]

\* the uploads a single handler run is checked on
RichUploads ==
    { Upload(n, d, f) : n \in {NameA, NameB, NameP}, d \in {Valid1, Corrupt},
                        f \in {"none", "save_early", "save_late", "write"} }
    \cup {Upload(NameU, Valid1, "none"), Upload(NameT, Valid1, "none")}

\* the uploads the counting of a long batch is checked on
CountUploads ==
    { Upload(NameA, Valid1, "none"), Upload(NameB, Valid1, "none"),
      Upload(NameA, Corrupt, "none"), Upload(NameB, Valid1, "save_early"),
      Upload(NameA, Valid1, "write") }

\* the uploads concurrent requests are checked on
SmallUploads == {Upload(NameA, Valid1, "none"), Upload(NameA, Corrupt, "none")}

InputPath(file_id) == <<TEMP_DIR, <<file_id, "_input.pdf">>>>
OutputPath(file_id) == <<TEMP_DIR, <<file_id, "_output.pdf">>>>
ZipPath(batch_id) == <<TEMP_DIR, <<"processed_pdfs_", batch_id, ".zip">>>>
BatchDir(batch_id) == <<"batch_", batch_id>>
BatchInput(batch_dir, filename) == <<batch_dir, <<"input_">> \o filename>>
BatchOutput(batch_dir, filename) == <<batch_dir, <<"processed_">> \o filename>>

IdNames == <<"u1", "u2", "u3", "u4">>
IssuedIds == { IdNames[k] : k \in 1..MaxReq }
AllIds == IssuedIds \cup {"u0"}

uuid4Fixed(used) == IdNames[1]

\* uuid.uuid4(): an identifier no earlier call returned (the next unused one,
\* which is every fresh choice up to renaming)
uuid4(used) == IdNames[Cardinality(used) + 1]

NoResponse == [status |-> 0, report |-> <<>>, file_id |-> "none"]

ProcessResponseSwapped(processed, successful, failed, file_id) ==
    [status |-> 200, report |-> <<successful, successful, failed>>,
     file_id |-> file_id]

\* ProcessResponse(success=True, ...): report = processed, successful, failed
ProcessResponse(processed, successful, failed, file_id) ==
    [status |-> 200, report |-> <<processed, successful, failed>>,
     file_id |-> file_id]

HTTPException(status_code) ==
    [status |-> status_code, report |-> <<>>, file_id |-> "none"]

IdleReq ==
    [kind |-> "idle", pc |-> "idle", uploads |-> <<>>, zip_fault |-> FALSE,
     config |-> DefaultConfig, file_id |-> "none", i |-> 0,
     successful |-> 0, failed |-> 0, response |-> NoResponse]

Remove(fl, paths) == [p \in (DOMAIN fl) \ paths |-> fl[p]]

\* batch_dir.glob(prefix + "*"): the files of the directory whose name
\* starts with the prefix
Glob(fl, batch_dir, prefix) ==
    { p \in DOMAIN fl : p[1] = batch_dir /\ p[2][1] = prefix }

\* the fault handed to process_pdf: a fault of the save step never reaches it
PdfFault(fault) == IF fault \in StepNames THEN fault ELSE "none"

----------------------------------------------------------------------------
(* process_single_pdf *)

\* finally: if input_path.exists(): input_path.unlink()
FinallySingle(fl, input_path) == Remove(fl, {input_path})

SubmitSingle(r, uploads) ==
    /\ reqs[r].pc = "idle"
    /\ \E u \in uploads :
         IF ~IsPdf(u.filename)
         THEN /\ reqs' = [reqs EXCEPT ![r] =
                    [@ EXCEPT !.kind = "single", !.pc = "done",
                              !.uploads = <<u>>,
                              !.response = HTTPException(400)]]
              /\ UNCHANGED used_ids
         ELSE LET file_id == uuid4(used_ids) IN
              /\ reqs' = [reqs EXCEPT ![r] =
                    [@ EXCEPT !.kind = "single", !.pc = "save",
                              !.uploads = <<u>>, !.file_id = file_id]]
              /\ used_ids' = used_ids \cup {file_id}
    /\ UNCHANGED <<files, zips, dirs, log, call, cleanups>>

\* with open(input_path, "wb") as buffer: shutil.copyfileobj(file.file, buffer)
SaveSingle(r) ==
    /\ reqs[r].pc = "save" /\ reqs[r].kind = "single"
    /\ LET q          == reqs[r]
           u          == q.uploads[1]
           input_path == InputPath(q.file_id)
       IN /\ log' = log \cup {<<r, input_path>>}
          /\ IF u.fault \in {"save_early", "save_late"}
             THEN \* except Exception: 500; finally
                  /\ files' = FinallySingle(
                        IF u.fault = "save_late"
                        THEN (input_path :> Corrupt) @@ files ELSE files,
                        input_path)
                  /\ reqs' = [reqs EXCEPT ![r] =
                        [@ EXCEPT !.pc = "done",
                                  !.response = HTTPException(500)]]
             ELSE /\ files' = (input_path :> u.data) @@ files
                  /\ reqs' = [reqs EXCEPT ![r] = [@ EXCEPT !.pc = "process"]]
    /\ UNCHANGED <<zips, dirs, used_ids, call, cleanups>>

ProcessSingle(r) ==
    /\ reqs[r].pc = "process"
    /\ LET q           == reqs[r]
           input_path  == InputPath(q.file_id)
           output_path == OutputPath(q.file_id)
           res == process_pdf(files, input_path, output_path, q.config,
                              PdfFault(q.uploads[1].fault))
       IN /\ log' = log \cup {<<r, input_path>>, <<r, output_path>>}
          /\ files' = FinallySingle(res.files, input_path)
          /\ reqs' = [reqs EXCEPT ![r] =
                [@ EXCEPT !.pc = "done",
                          !.response =
                              IF res.outcome = "True"
                              THEN ProcessResponse(1, 1, 0, q.file_id)
                              ELSE HTTPException(500)]]
    /\ UNCHANGED <<zips, dirs, used_ids, call, cleanups>>

----------------------------------------------------------------------------
(* process_multiple_pdfs *)

\* processed_file.name.replace("processed_", ""): every occurrence goes
Replace(name, old) == SelectSeq(name, LAMBDA tok : tok # old)

NextFileBreak(i, n, counted_ok) == IF counted_ok THEN i + 1 ELSE n + 1

\* for file in files: the loop goes on to the next file whatever happened
NextFile(i, n, counted_ok) == i + 1

\* the body of the loop for upload u: save, process, count, unlink
LoopBody(fl, batch_dir, u, config, successful, failed) ==
    LET input_path  == BatchInput(batch_dir, u.filename)
        output_path == BatchOutput(batch_dir, u.filename)
    IN
    IF u.fault = "save_early"
    THEN [files |-> fl, successful |-> successful, failed |-> failed + 1]
    ELSE IF u.fault = "save_late"
    THEN [files |-> (input_path :> Corrupt) @@ fl,
          successful |-> successful, failed |-> failed + 1]
    ELSE LET saved == (input_path :> u.data) @@ fl
             res   == process_pdf(saved, input_path, output_path, config,
                                  PdfFault(u.fault))
         IN
    IF res.outcome = "raised"
    THEN [files |-> res.files, successful |-> successful,
          failed |-> failed + 1]
    ELSE [files |-> Remove(res.files, {input_path}),
          successful |-> successful + (IF res.outcome = "True" THEN 1 ELSE 0),
          failed |-> failed + (IF res.outcome = "True" THEN 0 ELSE 1)]

FinallyBatchNone(fl, batch_dir) == fl

\* finally: for file in batch_dir.glob("input_*"): file.unlink()
FinallyBatch(fl, batch_dir) == Remove(fl, Glob(fl, batch_dir, "input_"))

SubmitBatch(r, uploads, zip_faults, max_len) ==
    /\ reqs[r].pc = "idle"
    /\ \E us \in SeqsUpTo(uploads, max_len), zf \in zip_faults :
         IF us = <<>> \/ \E k \in 1..Len(us) : ~IsPdf(us[k].filename)
         THEN /\ reqs' = [reqs EXCEPT ![r] =
                    [@ EXCEPT !.kind = "batch", !.pc = "done", !.uploads = us,
                              !.zip_fault = zf,
                              !.response = HTTPException(400)]]
              /\ UNCHANGED <<used_ids, dirs, log>>
         ELSE LET batch_id == uuid4(used_ids) IN
              /\ reqs' = [reqs EXCEPT ![r] =
                    [@ EXCEPT !.kind = "batch", !.pc = "loop", !.uploads = us,
                              !.zip_fault = zf, !.file_id = batch_id,
                              !.i = 1]]
              /\ used_ids' = used_ids \cup {batch_id}
              /\ dirs' = dirs \cup {BatchDir(batch_id)}
              /\ log' = log \cup {<<r, <<TEMP_DIR, BatchDir(batch_id)>>>>}
    /\ UNCHANGED <<files, zips, call, cleanups>>

LoopFile(r) ==
    /\ reqs[r].pc = "loop"
    /\ reqs[r].i <= Len(reqs[r].uploads)
    /\ LET q         == reqs[r]
           u         == q.uploads[q.i]
           batch_dir == BatchDir(q.file_id)
           b == LoopBody(files, batch_dir, u, q.config, q.successful, q.failed)
       IN /\ files' = b.files
          /\ log' = log \cup {<<r, BatchInput(batch_dir, u.filename)>>,
                              <<r, BatchOutput(batch_dir, u.filename)>>}
          /\ reqs' = [reqs EXCEPT ![r] =
                [@ EXCEPT !.successful = b.successful, !.failed = b.failed,
                          !.i = NextFile(q.i, Len(q.uploads),
                                         b.successful > q.successful)]]
    /\ UNCHANGED <<zips, dirs, used_ids, call, cleanups>>

\* after the loop: the ZIP and the report, or the error; then the finally
FinishBatch(r) ==
    /\ reqs[r].pc = "loop"
    /\ reqs[r].i > Len(reqs[r].uploads)
    /\ LET q         == reqs[r]
           batch_dir == BatchDir(q.file_id)
           zip_path  == ZipPath(q.file_id)
           entries   == { [arcname |-> Replace(p[2], "processed_"),
                           data    |-> files[p]] :
                          p \in Glob(files, batch_dir, "processed_") }
       IN /\ IF q.successful > 0
             THEN /\ log' = log \cup {<<r, zip_path>>}
                  /\ IF q.zip_fault
                     THEN /\ zips' = (zip_path :> {}) @@ zips
                          /\ reqs' = [reqs EXCEPT ![r] =
                                [@ EXCEPT !.pc = "done",
                                          !.response = HTTPException(500)]]
                     ELSE /\ zips' = (zip_path :> entries) @@ zips
                          /\ reqs' = [reqs EXCEPT ![r] =
                                [@ EXCEPT !.pc = "done",
                                          !.response = ProcessResponse(
                                              Len(q.uploads), q.successful,
                                              q.failed, q.file_id)]]
             ELSE /\ reqs' = [reqs EXCEPT ![r] =
                        [@ EXCEPT !.pc = "done",
                                  !.response = HTTPException(500)]]
                  /\ UNCHANGED <<zips, log>>
          /\ files' = FinallyBatch(files, batch_dir)
    /\ UNCHANGED <<dirs, used_ids, call, cleanups>>

----------------------------------------------------------------------------
(* download_processed_zip and cleanup_files *)

download_processed_zip(zp, batch_id) ==
    IF ZipPath(batch_id) \in DOMAIN zp
    THEN [status |-> 200, entries |-> zp[ZipPath(batch_id)]]
    ELSE [status |-> 404, entries |-> {}]

clean_oneAlways(exists) == 1

\* if is_file(): unlink, cleaned += 1; elif is_dir(): rmtree, cleaned += 1
clean_one(exists) == IF exists THEN 1 ELSE 0

InFlight(file_id) ==
    \E r \in DOMAIN reqs : reqs[r].file_id = file_id /\ reqs[r].pc # "done"

\* an identifier reaches a client only in a response, so a request still
\* running is never the target
Cleanup(file_id) ==
    /\ ~InFlight(file_id)
    /\ LET out_path  == OutputPath(file_id)
           zip_path  == ZipPath(file_id)
           batch_dir == BatchDir(file_id)
           in_dir    == { p \in DOMAIN files : p[1] = batch_dir }
       IN /\ files' = Remove(files, {out_path} \cup
                             (IF batch_dir \in dirs THEN in_dir ELSE {}))
          /\ zips' = Remove(zips, {zip_path})
          /\ dirs' = dirs \ {batch_dir}
          /\ cleanups' = [file_id |-> file_id, status |-> 200,
                          cleaned |-> clean_one(out_path \in DOMAIN files)
                                      + clean_one(zip_path \in DOMAIN zips)
                                      + clean_one(batch_dir \in dirs)]
    /\ UNCHANGED <<used_ids, reqs, log, call>>

----------------------------------------------------------------------------
(* Specifications *)

InitHttp(slots) ==
    /\ files = NoFiles /\ zips = NoZips /\ dirs = {} /\ used_ids = {}
    /\ log = {} /\ call = NoCall /\ cleanups = NoCleanup
    /\ reqs = [r \in slots |-> IdleReq]

\* requests take the slots in order: which slot a request runs in is only
\* its name
FreeSlot(r) == IF r = 1 THEN TRUE ELSE reqs[r - 1].pc # "idle"

\* concurrent requests, their steps interleaved
Init == InitHttp(1..MaxReq)

Next ==
    \/ \E r \in 1..MaxReq :
         \/ FreeSlot(r) /\ SubmitSingle(r, SmallUploads)
         \/ SaveSingle(r)
         \/ ProcessSingle(r)
         \/ FreeSlot(r) /\ SubmitBatch(r, SmallUploads, {FALSE}, MaxApiFiles)
         \/ LoopFile(r)
         \/ FinishBatch(r)
    \/ \E file_id \in AllIds : Cleanup(file_id)

Spec == Init /\ [][Next]_vars

\* one handler run, on every upload, fault and file name
InitHandlers == InitHttp({1})

NextHandlers ==
    \/ SubmitSingle(1, RichUploads)
    \/ SaveSingle(1)
    \/ ProcessSingle(1)
    \/ SubmitBatch(1, RichUploads, BOOLEAN, MaxFiles)
    \/ LoopFile(1)
    \/ FinishBatch(1)

SpecHandlers == InitHandlers /\ [][NextHandlers]_vars

\* one long batch
NextCounts ==
    \/ SubmitBatch(1, CountUploads, {FALSE}, MaxBatch)
    \/ LoopFile(1)
    \/ FinishBatch(1)

SpecCounts == InitHandlers /\ [][NextCounts]_vars

----------------------------------------------------------------------------
(* Claims about process_pdf, under SpecPdf *)

CallDone == call.state = "done"
Readable == PdfIn \in DOMAIN files /\ files[PdfIn].valid
SrcPages == files[PdfIn].pages
OutPages == files[PdfOut].pages
Wrote == call.outcome = "True" /\ PdfOut \in DOMAIN files

\* the rectangle of a field annotation: (x, y, x + width, y + height)
Rect(f) == <<f.x, f.y, f.x + f.width, f.y + f.height>>

\* the field the call added to the first page
NewField == OutPages[1].annots[Len(OutPages[1].annots)]

\* C1: the field placed on the first page has rectangle
\* (x, y, x + width, y + height), x = x_pos if x_pos >= 0 else
\* page_width + x_pos, y likewise against page_height, never clamped;
\* non-negative offsets are kept as they are, and the default configuration
\* on a 612 x 792 page gives (585, 16, 675, 39).
C1_Rectangle ==
    (CallDone /\ Wrote /\ Readable /\ Len(SrcPages) >= 1) =>
        LET c == call.config
            w == SrcPages[1].w
            h == SrcPages[1].h
            x == IF c.x_pos >= 0 THEN c.x_pos ELSE w + c.x_pos
            y == IF c.y_pos >= 0 THEN c.y_pos ELSE h + c.y_pos
        IN /\ Rect(NewField) = <<x, y, x + c.width, y + c.height>>
           /\ (c.x_pos >= 0 /\ c.y_pos >= 0)
                => (NewField.x = c.x_pos /\ NewField.y = c.y_pos)
           /\ (c = DefaultConfig /\ w = 612 /\ h = 792)
                => Rect(NewField) = <<585, 16, 675, 39>>

C1_Witness ==
    /\ CallDone /\ Wrote /\ Readable /\ Len(SrcPages) = 1
    /\ call.config = DefaultConfig
    /\ SrcPages[1].w = 612 /\ SrcPages[1].h = 792
    /\ Rect(NewField) = <<585, 16, 675, 39>>

\* C2: on a well-formed input of N >= 0 pages, with no step failing,
\* process_pdf returns True and the output holds the N pages of the source
\* in the source's order; for N = 0 it is a zero-page document.
C2_SamePages ==
    (CallDone /\ Readable /\ call.fault = "none") =>
        /\ call.outcome = "True"
        /\ PdfOut \in DOMAIN files
        /\ files[PdfOut].valid
        /\ Len(OutPages) = Len(SrcPages)
        /\ \A k \in 1..Len(SrcPages) : OutPages[k].body = SrcPages[k].body

C2_Witness ==
    /\ CallDone /\ Readable /\ SrcPages = <<>>
    /\ call.outcome = "True" /\ PdfOut \in DOMAIN files
    /\ files[PdfOut] = Doc(<<>>)

\* C3: on N >= 1 pages the output's first page is the source's first page
\* with exactly one more field annotation, the one built against that
\* page's own width and height, and every later page equals the source's.
C3_OnlyFirstPage ==
    (CallDone /\ Wrote /\ Readable /\ Len(SrcPages) >= 1) =>
        LET src == SrcPages[1]
            out == OutPages[1]
            c   == call.config
        IN /\ out.body = src.body /\ out.w = src.w /\ out.h = src.h
           /\ Len(out.annots) = Len(src.annots) + 1
           /\ \A k \in 1..Len(src.annots) : out.annots[k] = src.annots[k]
           /\ NewField.name = c.field_name
           /\ NewField.x = (IF c.x_pos >= 0 THEN c.x_pos ELSE src.w + c.x_pos)
           /\ NewField.y = (IF c.y_pos >= 0 THEN c.y_pos ELSE src.h + c.y_pos)
           /\ Len(OutPages) = Len(SrcPages)
           /\ \A k \in 2..Len(SrcPages) : OutPages[k] = SrcPages[k]

C3_Witness ==
    /\ CallDone /\ Wrote /\ Readable /\ Len(SrcPages) = 2
    /\ SrcPages[1].w # SrcPages[2].w
    /\ OutPages[2] = SrcPages[2]
    /\ Len(OutPages[1].annots) = 1

Failed(steps) == \E k \in 1..Len(steps) : steps[k][2] = "fail"

\* C4: process_pdf never raises: a call in which a step fails (opening or
\* reading the input, building or merging the overlay, creating or writing
\* the output) returns False, it returns True only when every step up to
\* the final write completed, and no step is run twice.
C4_NeverRaises ==
    CallDone =>
        /\ call.outcome \in {"True", "False"}
        /\ Failed(call.steps) => call.outcome = "False"
        /\ (~Readable \/ call.fault \in {"open", "read", "create", "write"})
             => call.outcome = "False"
        /\ (Readable /\ Len(SrcPages) >= 1
                /\ call.fault \in {"overlay", "merge"})
             => call.outcome = "False"
        /\ call.outcome = "True" =>
             /\ ~Failed(call.steps)
             /\ call.steps[Len(call.steps)] = <<"write", "ok">>
             /\ PdfOut \in DOMAIN files /\ files[PdfOut].valid
        /\ \A j, k \in 1..Len(call.steps) :
             call.steps[j][1] = call.steps[k][1] => j = k

C4_Witness ==
    /\ CallDone /\ Readable /\ call.fault = "write"
    /\ call.outcome = "False"
    /\ call.steps[Len(call.steps)] = <<"write", "fail">>

----------------------------------------------------------------------------
(* Claims about the handlers *)

Slots == DOMAIN reqs

\* what the request alone decides: the upload is well formed and nothing fails
Succeeds(u) == u.data.valid /\ u.fault = "none"

\* the uploads accepted by the validation of the handlers
PassesValidation(us) ==
    /\ us # <<>>
    /\ \A k \in 1..Len(us) :
         us[k].filename[Len(us[k].filename)] \in {".pdf", ".PDF"}

\* a batch request that entered the processing block
InBatch(q) == q.kind = "batch" /\ q.file_id # "none"

\* the files of the batch the loop has gone through
Attempted(q) == IF q.pc = "done" THEN Len(q.uploads) ELSE q.i - 1

\* the output process_pdf writes for an upload it succeeds on
Processed(u, config) == Doc(PageLoop(u.data.pages, 0, <<>>, config))

C6_AlwaysReport ==
    \A r \in Slots :
        LET q == reqs[r] IN
        (q.kind = "batch" /\ q.pc = "done" /\ PassesValidation(q.uploads)) =>
            /\ q.response.status = 200
            /\ q.response.report = <<Len(q.uploads), q.successful, q.failed>>

\* C6, amended: a batch request that passes validation ends with the report
\* (processed = files submitted, succeeded, failed) when at least one file
\* succeeded and the ZIP was written; otherwise, and so when every file
\* fails, it ends with HTTP 500 and no counts.
C6_ReportIfSomeSucceeded ==
    \A r \in Slots :
        LET q == reqs[r]
            ok == Cardinality(
                      { k \in 1..Len(q.uploads) : Succeeds(q.uploads[k]) })
        IN
        (q.kind = "batch" /\ q.pc = "done" /\ PassesValidation(q.uploads)) =>
            IF ok > 0 /\ ~q.zip_fault
            THEN /\ q.response.status = 200
                 /\ q.response.report =
                        <<Len(q.uploads), ok, Len(q.uploads) - ok>>
                 /\ q.response.file_id = q.file_id
            ELSE /\ q.response.status = 500
                 /\ q.response.report = <<>>

C6_Witness ==
    \E r \in Slots :
        LET q == reqs[r] IN
        /\ q.kind = "batch" /\ q.pc = "done"
        /\ Len(q.uploads) = 2 /\ ~Succeeds(q.uploads[1])
        /\ q.response.status = 200
        /\ q.response.report = <<2, 1, 1>>

\* C7 as stated: after a batch in which a file succeeded, the ZIP under the
\* returned batch id holds one entry per successful file, named with the
\* file's original name and holding its processed output, and no entry for
\* a file that failed.
C7_ZipHoldsTheSuccessful ==
    \A r \in Slots :
        LET q == reqs[r]
            z == download_processed_zip(zips, q.response.file_id)
        IN
        (q.kind = "batch" /\ q.pc = "done" /\ q.response.status = 200) =>
            /\ z.status = 200
            /\ \A k \in 1..Len(q.uploads) :
                 Succeeds(q.uploads[k]) =>
                     \E e \in z.entries :
                         /\ e.arcname = q.uploads[k].filename
                         /\ e.data = Processed(q.uploads[k], q.config)
            /\ \A e \in z.entries :
                 \E k \in 1..Len(q.uploads) :
                     /\ Succeeds(q.uploads[k])
                     /\ e.arcname = q.uploads[k].filename

\* C10: the copy of an upload does not outlive its request: when
\* process_single_pdf ends, {id}_input.pdf does not exist, and when
\* process_multiple_pdfs ends after entering the processing block, its
\* batch directory holds no input_* file.
C10_NoInputLeft ==
    \A r \in Slots :
        LET q == reqs[r] IN
        (q.pc = "done" /\ q.file_id # "none") =>
            /\ q.kind = "single" => InputPath(q.file_id) \notin DOMAIN files
            /\ q.kind = "batch" =>
                 \A p \in DOMAIN files :
                     p[1] = BatchDir(q.file_id) => p[2][1] # "input_"

C10_Witness ==
    \E r \in Slots :
        LET q == reqs[r] IN
        /\ InBatch(q) /\ q.pc = "done"
        /\ \E k \in 1..Len(q.uploads) : q.uploads[k].fault = "save_late"
        /\ \A p \in DOMAIN files : p[2][1] # "input_"

----------------------------------------------------------------------------
(* Claims about cleanup_files and concurrent requests, under Spec *)

\* the artifacts keyed by an identifier
OwnFiles(fl, file_id) ==
    { p \in DOMAIN fl : p = OutputPath(file_id) \/ p[1] = BatchDir(file_id) }

\* how many of {id}_output.pdf, processed_pdfs_{id}.zip, batch_{id}/ exist
Existing(fl, zp, ds, file_id) ==
    Cardinality({OutputPath(file_id)} \cap DOMAIN fl)
    + Cardinality({ZipPath(file_id)} \cap DOMAIN zp)
    + Cardinality({BatchDir(file_id)} \cap ds)

\* C8: a cleanup_files call (the only step that leaves every request as it
\* is) answers 200 whatever the identifier, removes the artifacts keyed by
\* that identifier and nothing else, and reports how many of them existed:
\* 0 for an identifier that has none.
C8_CleanupOnlyOwn ==
    [][ reqs' = reqs =>
          LET file_id == cleanups'.file_id IN
          /\ cleanups'.status = 200
          /\ cleanups'.cleaned = Existing(files, zips, dirs, file_id)
          /\ Existing(files', zips', dirs', file_id) = 0
          /\ OwnFiles(files', file_id) = {}
          /\ DOMAIN files' = (DOMAIN files) \ OwnFiles(files, file_id)
          /\ \A p \in DOMAIN files' : files'[p] = files[p]
          /\ DOMAIN zips' = (DOMAIN zips) \ {ZipPath(file_id)}
          /\ \A p \in DOMAIN zips' : zips'[p] = zips[p]
          /\ dirs' = dirs \ {BatchDir(file_id)}
      ]_vars

C8_Witness ==
    /\ cleanups.status = 200 /\ cleanups.cleaned = 2
    /\ \E other \in IssuedIds :
         /\ other # cleanups.file_id
         /\ OutputPath(other) \in DOMAIN files

RECURSIVE AloneLoop(_, _, _, _, _)
AloneLoop(fl, q, k, successful, failed) ==
    IF k > Len(q.uploads)
    THEN [files |-> fl, successful |-> successful, failed |-> failed]
    ELSE LET b == LoopBody(fl, BatchDir(q.file_id), q.uploads[k], q.config,
                           successful, failed)
         IN AloneLoop(b.files, q, k + 1, b.successful, b.failed)

\* the response of a request run by itself on an empty TEMP_DIR
AloneResponse(q) ==
    IF q.kind = "single"
    THEN IF Succeeds(q.uploads[1])
         THEN [status |-> 200, report |-> <<1, 1, 0>>, file_id |-> q.file_id]
         ELSE [status |-> 500, report |-> <<>>, file_id |-> "none"]
    ELSE LET l == AloneLoop(NoFiles, q, 1, 0, 0) IN
         IF l.successful > 0 /\ ~q.zip_fault
         THEN [status |-> 200,
               report |-> <<Len(q.uploads), l.successful, l.failed>>,
               file_id |-> q.file_id]
         ELSE [status |-> 500, report |-> <<>>, file_id |-> "none"]

\* the ZIP of a batch run by itself on an empty TEMP_DIR
AloneZip(q) ==
    LET l == AloneLoop(NoFiles, q, 1, 0, 0) IN
    { [arcname |-> Replace(p[2], "processed_"), data |-> l.files[p]] :
      p \in { x \in DOMAIN l.files : x[2][1] = "processed_" } }

\* the paths built from an identifier
DerivedFrom(path, file_id) ==
    \/ path \in {InputPath(file_id), OutputPath(file_id), ZipPath(file_id),
                 <<TEMP_DIR, BatchDir(file_id)>>}
    \/ path[1] = BatchDir(file_id)

\* C9: however the steps of concurrent requests interleave, no path is
\* touched by two requests, every path a request touches is built from its
\* own identifier, no two requests have the same identifier, and the
\* response and the output of a request are those it produces when it runs
\* alone.
C9_NoSharedPath ==
    /\ \A a \in log, b \in log : a[2] = b[2] => a[1] = b[1]
    /\ \A a \in log : DerivedFrom(a[2], reqs[a[1]].file_id)
    /\ \A r1 \in Slots, r2 \in Slots :
         (r1 # r2 /\ reqs[r1].file_id # "none")
            => reqs[r1].file_id # reqs[r2].file_id
    /\ \A r \in Slots :
         LET q == reqs[r] IN
         (q.pc = "done" /\ q.file_id # "none") =>
            /\ q.response = AloneResponse(q)
            /\ (q.kind = "single" /\ OutputPath(q.file_id) \in DOMAIN files
                    /\ q.response.status = 200)
                 => files[OutputPath(q.file_id)]
                        = Processed(q.uploads[1], q.config)
            /\ (q.kind = "batch" /\ ZipPath(q.file_id) \in DOMAIN zips)
                 => zips[ZipPath(q.file_id)] = AloneZip(q)

C9_Witness ==
    \E r1 \in Slots, r2 \in Slots :
        /\ reqs[r1].kind = "single" /\ reqs[r1].pc = "process"
        /\ reqs[r2].kind = "batch" /\ reqs[r2].pc = "loop" /\ reqs[r2].i = 2
        /\ \E a \in log : a[1] = r1
        /\ \E b \in log : b[1] = r2 /\ b[2][1] = BatchDir(reqs[r2].file_id)

====
